---- MODULE Spec2Model ----
(***************************************************************************)
(* Model of xlsx-to-moodle.py: the lightweight markup translator           *)
(* (convert_markup_to_html), the field coercers (clean_float, clean_bool,  *)
(* strip_control), the row mapper (question_multichoice_xml) and the       *)
(* document build loop (excel_to_moodle_xml).                              *)
(*                                                                         *)
(* A Python str is a sequence of one-character strings.  A Python float is *)
(* an integer number of 1e-7 units (Scale units make 1.0), which is exact  *)
(* for every value the model draws.                                        *)
(***************************************************************************)
EXTENDS Integers, Sequences, FiniteSets, TLC

VARIABLES
    pc,          \* position of the running function
    text,        \* convert_markup_to_html: the argument
    t,           \* convert_markup_to_html: local t
    lines,       \* convert_markup_to_html: local lines
    html_lines,  \* convert_markup_to_html: local html_lines
    i,           \* convert_markup_to_html: the scan cursor
    html,        \* convert_markup_to_html: local html (the returned value)
    qrow,        \* question_multichoice_xml: the row
    index,       \* question_multichoice_xml: the positional index
    q,           \* question_multichoice_xml: the question node returned
    rows,        \* excel_to_moodle_xml: the normalized frame, row by row
    category,    \* excel_to_moodle_xml: the category argument
    idx,         \* excel_to_moodle_xml: rows mapped so far
    root         \* excel_to_moodle_xml: the children of <quiz>

vars == <<pc, text, t, lines, html_lines, i, html, qrow, index, q,
          rows, category, idx, root>>

translateVars == <<text, t, lines, html_lines, i, html>>
mapVars == <<qrow, index, q>>
assembleVars == <<rows, category, idx, root>>

-----------------------------------------------------------------------------
(* Strings *)

Concat(ss) ==
    LET F[k \in 0..Len(ss)] == IF k = 0 THEN <<>> ELSE F[k-1] \o ss[k]
    IN F[Len(ss)]

MinOf(S) == CHOOSE x \in S : \A y \in S : x <= y

\* s[p..] starts with pat
MatchAt(s, p, pat) ==
    /\ p >= 1
    /\ p + Len(pat) - 1 <= Len(s)
    /\ \A k \in 1..Len(pat) : s[p + k - 1] = pat[k]

\* str.replace(old, new): left to right, non-overlapping
RECURSIVE ReplaceFrom(_, _, _, _)
ReplaceFrom(s, p, old, new) ==
    IF p > Len(s) THEN <<>>
    ELSE IF MatchAt(s, p, old) THEN new \o ReplaceFrom(s, p + Len(old), old, new)
    ELSE <<s[p]>> \o ReplaceFrom(s, p + 1, old, new)

str_replace(s, old, new) == ReplaceFrom(s, 1, old, new)

\* the characters \s matches, among those the model writes
Whitespace == {" ", "\t", "\n", "\r", "\f"}

Digits == {"0", "1", "2", "3", "4", "5", "6", "7", "8", "9"}

\* how many characters of class C the string carries from position p on
RECURSIVE SpanLen(_, _, _)
SpanLen(s, p, C) ==
    IF p <= Len(s) /\ s[p] \in C THEN 1 + SpanLen(s, p + 1, C) ELSE 0

\* how many trailing characters of s are whitespace
RECURSIVE TrailLen(_, _)
TrailLen(s, n) ==
    IF n >= 1 /\ s[n] \in Whitespace THEN 1 + TrailLen(s, n - 1) ELSE 0

\* str.strip()
str_strip(s) ==
    LET a == SpanLen(s, 1, Whitespace)
    IN IF a = Len(s) THEN <<>>
       ELSE SubSeq(s, a + 1, Len(s) - TrailLen(s, Len(s)))

\* _ctrl_re: [\x00-\x08\x0B\x0C\x0E-\x1F]; the model writes \f (0x0C) for them
CtrlChars == {"\f"}

\* _ctrl_re.sub("", s) on a str
StripCtrl(s) == SelectSeq(s, LAMBDA c : c \notin CtrlChars)

-----------------------------------------------------------------------------
(* convert_markup_to_html *)

StrongOpen == <<"<", "s", "t", "r", "o", "n", "g", ">">>
StrongClose == <<"<", "/", "s", "t", "r", "o", "n", "g", ">">>
EmOpen == <<"<", "e", "m", ">">>
EmClose == <<"<", "/", "e", "m", ">">>
UlOpen == <<"<", "u", "l", ">">>
UlClose == <<"<", "/", "u", "l", ">">>
OlOpen == <<"<", "o", "l", ">">>
OlClose == <<"<", "/", "o", "l", ">">>
LiOpen == <<"<", "l", "i", ">">>
LiClose == <<"<", "/", "l", "i", ">">>
Br == <<"<", "b", "r", "/", ">">>
BrToken == <<"[", "b", "r", "]">>

\* lines 42-43: strip control characters, normalize line ends, [br] -> newline
Sanitized(s) ==
    str_replace(
        str_replace(str_replace(StripCtrl(s), <<"\r", "\n">>, <<"\n">>),
                    <<"\r">>, <<"\n">>),
        BrToken, <<"\n">>)

\* html.escape(s, quote=True), one character
EscapeChar(c) ==
    CASE c = "&" -> <<"&", "a", "m", "p", ";">>
      [] c = "<" -> <<"&", "l", "t", ";">>
      [] c = ">" -> <<"&", "g", "t", ";">>
      [] c = "\"" -> <<"&", "q", "u", "o", "t", ";">>
      [] c = "'" -> <<"&", "#", "x", "2", "7", ";">>
      [] OTHER -> <<c>>

\* escape applied without its '<' and '>' rules
escape_ampersand_only(s) ==
    Concat([k \in 1..Len(s) |->
              IF s[k] \in {"<", ">"} THEN <<s[k]>> ELSE EscapeChar(s[k])])

\* line 46: escape(t)
escape(s) == Concat([k \in 1..Len(s) |-> EscapeChar(s[k])])

\* the '.' of a regular expression: any character but a newline
NoNewline(s, a, b) == \A k \in a..b : s[k] # "\n"

\* \*\*(.+?)\*\* tried at p: the position of the closing pair, 0 if no match
BoldClose(s, p) ==
    IF ~MatchAt(s, p, <<"*", "*">>) THEN 0
    ELSE LET C == {e \in (p + 3)..(Len(s) - 1) :
                      MatchAt(s, e, <<"*", "*">>) /\ NoNewline(s, p + 2, e - 1)}
         IN IF C = {} THEN 0 ELSE MinOf(C)

RECURSIVE BoldFrom(_, _)
BoldFrom(s, p) ==
    IF p > Len(s) THEN <<>>
    ELSE LET e == BoldClose(s, p)
         IN IF e > 0
            THEN StrongOpen \o SubSeq(s, p + 2, e - 1) \o StrongClose
                 \o BoldFrom(s, e + 2)
            ELSE <<s[p]>> \o BoldFrom(s, p + 1)

\* line 49: re.sub(r"\*\*(.+?)\*\*", r"<strong>\1</strong>", t)
Bold(s) == BoldFrom(s, 1)

\* (?<!\*)\*(?!\*) at p: a star with no star on either side
LoneStar(s, p) ==
    /\ p >= 1 /\ p <= Len(s)
    /\ s[p] = "*"
    /\ (p = 1 \/ s[p - 1] # "*")
    /\ (p = Len(s) \/ s[p + 1] # "*")

\* (?<!\*)\*(?!\*)(.+?)(?<!\*)\*(?!\*) tried at p: the closing star, 0 if none
ItalicClose(s, p) ==
    IF ~LoneStar(s, p) THEN 0
    ELSE LET C == {e \in (p + 2)..Len(s) :
                      LoneStar(s, e) /\ NoNewline(s, p + 1, e - 1)}
         IN IF C = {} THEN 0 ELSE MinOf(C)

RECURSIVE ItalicFrom(_, _)
ItalicFrom(s, p) ==
    IF p > Len(s) THEN <<>>
    ELSE LET e == ItalicClose(s, p)
         IN IF e > 0
            THEN EmOpen \o SubSeq(s, p + 1, e - 1) \o EmClose
                 \o ItalicFrom(s, e + 1)
            ELSE <<s[p]>> \o ItalicFrom(s, p + 1)

\* line 51: re.sub(r"(?<!\*)\*(?!\*)(.+?)(?<!\*)\*(?!\*)", r"<em>\1</em>", t)
Italic(s) == ItalicFrom(s, 1)

\* line 54: t.split("\n")
RECURSIVE SplitFrom(_, _, _)
SplitFrom(s, p, cur) ==
    IF p > Len(s) THEN <<cur>>
    ELSE IF s[p] = "\n" THEN <<cur>> \o SplitFrom(s, p + 1, <<>>)
    ELSE SplitFrom(s, p + 1, Append(cur, s[p]))

Split(s) == SplitFrom(s, 1, <<>>)

\* re.match(r"^\s*-\s+", line): the length matched, 0 if no match
BulletPrefix(line) ==
    LET a == SpanLen(line, 1, Whitespace)
        b == SpanLen(line, a + 2, Whitespace)
    IN IF a + 1 <= Len(line) /\ line[a + 1] = "-" /\ b >= 1
       THEN a + 1 + b ELSE 0

\* re.match(r"^\s*\d+[\.\)]\s+", line): the length matched, 0 if no match
NumberPrefix(line) ==
    LET a == SpanLen(line, 1, Whitespace)
        d == SpanLen(line, a + 1, Digits)
        b == SpanLen(line, a + d + 2, Whitespace)
    IN IF d >= 1 /\ a + d + 1 <= Len(line) /\ line[a + d + 1] \in {".", ")"}
          /\ b >= 1
       THEN a + d + 1 + b ELSE 0

\* the list pattern of a kind of list, tried on a line
PrefixOf(kind, line) ==
    IF kind = "ul" THEN BulletPrefix(line) ELSE NumberPrefix(line)

\* lines 63, 71: re.sub(prefix, "", lines[i]).strip()
ItemOf(line, n) == str_strip(SubSeq(line, n + 1, Len(line)))

\* the inner while loops of lines 62-64 and 70-72: the first index past the run
RECURSIVE RunEnd(_, _, _)
RunEnd(ls, k, kind) ==
    IF k <= Len(ls) /\ PrefixOf(kind, ls[k]) > 0 THEN RunEnd(ls, k + 1, kind) ELSE k

\* lines 65, 73: open + "".join(f"<li>{itm}</li>" ...) + close
ListBlock(ls, a, b, kind) ==
    (IF kind = "ul" THEN UlOpen ELSE OlOpen)
    \o Concat([k \in 1..(b - a) |->
                LiOpen \o ItemOf(ls[a + k - 1], PrefixOf(kind, ls[a + k - 1]))
                \o LiClose])
    \o (IF kind = "ul" THEN UlClose ELSE OlClose)

\* the scan taking one line at a time, a list line too
ScanAt_one_line(ls, k) ==
    IF BulletPrefix(ls[k]) > 0
    THEN [block |-> ListBlock(ls, k, k + 1, "ul"), next |-> k + 1]
    ELSE IF NumberPrefix(ls[k]) > 0
    THEN [block |-> ListBlock(ls, k, k + 1, "ol"), next |-> k + 1]
    ELSE [block |-> ls[k], next |-> k + 1]

\* one iteration of the while loop of lines 57-77, at cursor k (1-based):
\* the element appended to html_lines and the cursor after it
ScanAt(ls, k) ==
    IF BulletPrefix(ls[k]) > 0
    THEN LET e == RunEnd(ls, k, "ul")
         IN [block |-> ListBlock(ls, k, e, "ul"), next |-> e]
    ELSE IF NumberPrefix(ls[k]) > 0
    THEN LET e == RunEnd(ls, k, "ol")
         IN [block |-> ListBlock(ls, k, e, "ol"), next |-> e]
    ELSE [block |-> ls[k], next |-> k + 1]

\* lines 55-77, the whole loop
RECURSIVE ScanFrom(_, _)
ScanFrom(ls, k) ==
    IF k > Len(ls) THEN <<>>
    ELSE LET r == ScanAt(ls, k) IN <<r.block>> \o ScanFrom(ls, r.next)

\* line 79: "<br/>".join(html_lines)
Join(hl) ==
    Concat([k \in 1..Len(hl) |-> IF k = 1 THEN hl[k] ELSE Br \o hl[k]])

\* (?:<br/>\s*)* tried at p: how many repetitions match and where they end
RECURSIVE BreakRun(_, _)
BreakRun(s, p) ==
    IF MatchAt(s, p, Br)
    THEN LET w == SpanLen(s, p + Len(Br), Whitespace)
             r == BreakRun(s, p + Len(Br) + w)
         IN [n |-> r.n + 1, end |-> r.end]
    ELSE [n |-> 0, end |-> p]

RECURSIVE CollapseFrom(_, _)
CollapseFrom(s, p) ==
    IF p > Len(s) THEN <<>>
    ELSE LET r == BreakRun(s, p)
         IN IF r.n >= 3 THEN Br \o Br \o CollapseFrom(s, r.end)
            ELSE <<s[p]>> \o CollapseFrom(s, p + 1)

\* the collapse written with {4,} for {3,}
RECURSIVE CollapseFrom_four(_, _)
CollapseFrom_four(s, p) ==
    IF p > Len(s) THEN <<>>
    ELSE LET r == BreakRun(s, p)
         IN IF r.n >= 4 THEN Br \o Br \o CollapseFrom_four(s, r.end)
            ELSE <<s[p]>> \o CollapseFrom_four(s, p + 1)

Collapse_four(s) == CollapseFrom_four(s, 1)

\* line 80: re.sub(r"(?:<br/>\s*){3,}", "<br/><br/>", html)
Collapse(s) == CollapseFrom(s, 1)

\* lines 41-81 for a str argument
Translate(s) ==
    Collapse(Join(ScanFrom(Split(Italic(Bold(escape(Sanitized(s))))), 1)))

-----------------------------------------------------------------------------
(* Python values: None, a float NaN (an empty cell of the frame), str, int,  *)
(* float (in 1e-7 units) and bool; Absent is a key the row does not have     *)

Scale == 10 * 1000000

None == [kind |-> "None", s |-> <<>>, v |-> 0]
Absent == [kind |-> "absent", s |-> <<>>, v |-> 0]
NaN == [kind |-> "nan", s |-> <<>>, v |-> 0]
PyStr(s) == [kind |-> "str", s |-> s, v |-> 0]
PyInt(n) == [kind |-> "int", s |-> <<>>, v |-> n]
PyFloat(v) == [kind |-> "float", s |-> <<>>, v |-> v]
PyBool(b) == [kind |-> "bool", s |-> <<>>, v |-> IF b THEN 1 ELSE 0]

\* qrow.get(key) and qrow.get(key, default)
Get(cell) == IF cell = Absent THEN None ELSE cell
GetOr(cell, default) == IF cell = Absent THEN default ELSE cell

DigitSeq == <<"0", "1", "2", "3", "4", "5", "6", "7", "8", "9">>
DigitVal(c) == (CHOOSE n \in 1..10 : DigitSeq[n] = c) - 1

\* str(n) of an int n >= 0
RECURSIVE NatStr(_)
NatStr(n) ==
    IF n < 10 THEN <<DigitSeq[n + 1]>>
    ELSE NatStr(n \div 10) \o <<DigitSeq[(n % 10) + 1]>>

IntStr(n) == IF n < 0 THEN <<"-">> \o NatStr(-n) ELSE NatStr(n)

\* n as exactly w digits
RECURSIVE Padded(_, _)
Padded(n, w) ==
    IF w = 0 THEN <<>> ELSE Padded(n \div 10, w - 1) \o <<DigitSeq[(n % 10) + 1]>>

\* a digit string without its trailing zeros, one digit kept
RECURSIVE NoTrailingZeros(_)
NoTrailingZeros(d) ==
    IF Len(d) > 1 /\ d[Len(d)] = "0" THEN NoTrailingZeros(SubSeq(d, 1, Len(d) - 1))
    ELSE d

\* str(x) of a float x, for the magnitudes repr writes positionally
\* (0 and 1e-4 <= |x| < 1e16)
FloatStr(v) ==
    LET m == IF v < 0 THEN -v ELSE v
    IN (IF v < 0 THEN <<"-">> ELSE <<>>)
       \o NatStr(m \div Scale) \o <<".">> \o NoTrailingZeros(Padded(m % Scale, 7))

\* f"{x:.2f}" of a float x >= 0 that is no tie between two hundredths
Format2f(v) ==
    LET cents == (v + Scale \div 200) \div (Scale \div 100)
    IN NatStr(cents \div 100) \o <<".">> \o Padded(cents % 100, 2)

\* str(x)
PyStrOf(x) ==
    CASE x.kind = "None" -> <<"N", "o", "n", "e">>
      [] x.kind = "nan" -> <<"n", "a", "n">>
      [] x.kind = "str" -> x.s
      [] x.kind = "int" -> IntStr(x.v)
      [] x.kind = "float" -> FloatStr(x.v)
      [] x.kind = "bool" -> IF x.v = 1 THEN <<"T", "r", "u", "e">>
                            ELSE <<"F", "a", "l", "s", "e">>

\* the value of a digit string
RECURSIVE NatOf(_)
NatOf(d) ==
    IF d = <<>> THEN 0
    ELSE NatOf(SubSeq(d, 1, Len(d) - 1)) * 10 + DigitVal(d[Len(d)])

\* float(s) of a str, for decimal literals: blanks around, a sign, digits,
\* a point, at most seven digits after it; ok is FALSE where float raises.
\* The other spellings float accepts (exponents, inf, nan, underscores) are
\* not among the strings drawn.
ParseFloat(s) ==
    LET b == str_strip(s)
        signed == b # <<>> /\ b[1] \in {"+", "-"}
        u == IF signed THEN Tail(b) ELSE b
        n == SpanLen(u, 1, Digits)
        pointed == n < Len(u) /\ u[n + 1] = "."
        f == IF pointed THEN SpanLen(u, n + 2, Digits) ELSE 0
        used == n + (IF pointed THEN 1 + f ELSE 0)
        whole == NatOf(SubSeq(u, 1, n))
        frac == NatOf(SubSeq(u, n + 2, n + 1 + f) \o [k \in 1..(7 - f) |-> "0"])
        m == whole * Scale + frac
    IN IF used = Len(u) /\ n + f >= 1 /\ f <= 7
       THEN [ok |-> TRUE, v |-> IF signed /\ b[1] = "-" THEN -m ELSE m]
       ELSE [ok |-> FALSE, v |-> 0]

\* lines 25-28
strip_control(x) == IF x = None THEN <<>> ELSE StripCtrl(PyStrOf(x))

\* lines 83-89; default is a float
clean_float(x, default) ==
    IF x = None \/ x = NaN \/ (x.kind = "str" /\ str_strip(x.s) = <<>>)
    THEN default
    ELSE CASE x.kind = "float" -> x.v
           [] x.kind = "int" -> x.v * Scale
           [] x.kind = "bool" -> x.v * Scale
           [] x.kind = "str" ->
                IF ParseFloat(x.s).ok THEN ParseFloat(x.s).v ELSE default

\* str.lower() on the letters the model writes
LowerChar(c) ==
    CASE c = "T" -> "t" [] c = "F" -> "f" [] c = "Y" -> "y" [] c = "N" -> "n"
      [] c = "E" -> "e" [] c = "S" -> "s" [] c = "O" -> "o" [] OTHER -> c

str_lower(s) == [k \in 1..Len(s) |-> LowerChar(s[k])]

TrueWords ==
    {<<"t", "r", "u", "e">>, <<"t">>, <<"1">>, <<"y", "e", "s">>, <<"y">>}
FalseWords ==
    {<<"f", "a", "l", "s", "e">>, <<"f">>, <<"0">>, <<"n", "o">>, <<"n">>}

\* lines 91-101
clean_bool(x, default) ==
    IF x.kind = "bool" THEN x.v = 1
    ELSE IF x = None \/ x = NaN THEN default
    ELSE LET s == str_lower(str_strip(PyStrOf(x)))
         IN IF s \in TrueWords THEN TRUE
            ELSE IF s \in FalseWords THEN FALSE
            ELSE default

\* lines 39-40 and 41-81
convert_markup_to_html(x) == IF x = None THEN <<>> ELSE Translate(x.s)

-----------------------------------------------------------------------------
(* question_multichoice_xml *)

Choices == 1..5

\* bool(x): the truth value of a Python value
Truthy(x) ==
    CASE x.kind = "None" -> FALSE
      [] x.kind = "nan" -> TRUE
      [] x.kind = "str" -> x.s # <<>>
      [] x.kind \in {"int", "float", "bool"} -> x.v # 0

\* lines 122-127: the text of <name>
NameText(qrow_, index_) ==
    LET name_val == Get(qrow_.Name)
    IN IF ~Truthy(name_val) \/ name_val = NaN
       THEN strip_control(PyStr(<<"Q">> \o IntStr(index_ + 1)))
       ELSE strip_control(name_val)

\* line 142
Fractions(qrow_) ==
    [n \in Choices |-> clean_float(Get(qrow_.Fraction[n]), 0)]

\* line 143: max(fractions)
MaxFrac(fr) == CHOOSE m \in {fr[n] : n \in Choices} : \A n \in Choices : fr[n] <= m

\* single decided without counting the choices at the maximum
Single_no_count(fr) == MaxFrac(fr) >= 100 * Scale - Scale \div 1000000

\* line 144: fractions.count(max_frac) == 1 and max_frac >= 100.0 - 1e-6
Single(fr) ==
    /\ Cardinality({n \in Choices : fr[n] = MaxFrac(fr)}) = 1
    /\ MaxFrac(fr) >= 100 * Scale - Scale \div 1000000

\* the clamp with its upper bound only
Clamp_upper_only(v) == IF v < 100 * Scale THEN v ELSE 100 * Scale

\* line 168: max(-100.0, min(100.0, float(frac)))
Clamp(v) ==
    LET lo == IF v < 100 * Scale THEN v ELSE 100 * Scale
    IN IF lo > -100 * Scale THEN lo ELSE -100 * Scale

\* lines 161-180: one <answer>
AnswerNode(qrow_, n) ==
    [text |-> convert_markup_to_html(PyStr(strip_control(Get(qrow_.Choice[n])))),
     fraction |-> FloatStr(Clamp(clean_float(Get(qrow_.Fraction[n]), 0))),
     feedback |->
        convert_markup_to_html(PyStr(strip_control(Get(qrow_.ChoiceFeedback[n]))))]

BoolText(b) == IF b THEN "true" ELSE "false"

\* lines 114-182: the <question type="multichoice"> node
question_multichoice_xml(qrow_, index_) ==
    [type |-> "multichoice",
     name |-> NameText(qrow_, index_),
     questiontext |->
        convert_markup_to_html(
            PyStr(str_strip(PyStrOf(GetOr(qrow_.Question, PyStr(<<>>)))))),
     defaultgrade |-> Format2f(clean_float(Get(qrow_.DefaultGrade), 5 * Scale)),
     penalty |-> "0.0",
     single |-> BoolText(Single(Fractions(qrow_))),
     shuffleanswers |-> BoolText(clean_bool(Get(qrow_.Shuffle), TRUE)),
     answernumbering |-> "ABCD",
     generalfeedback |->
        convert_markup_to_html(PyStr(strip_control(Get(qrow_.GeneralFeedback)))),
     answers |-> [n \in Choices |-> AnswerNode(qrow_, n)]]

-----------------------------------------------------------------------------
(* convert_markup_to_html, statement by statement *)

\* the texts made of at most n pieces of P
RECURSIVE TextsOver(_, _)
TextsOver(P, n) ==
    IF n = 0 THEN {<<>>}
    ELSE LET S == TextsOver(P, n - 1) IN S \cup {s \o p : s \in S, p \in P}

MaxMarkupPieces == 4
MaxLinePieces == 5

\* emphasis markers, characters to escape, a tag spelled by the author, and
\* a line break spelled [br]
MarkupPieces ==
    {<<"*">>, <<"*", "*">>, <<"a">>, <<"<", "e", "m", ">">>, <<"&">>, BrToken}

\* list markers, blank material and line breaks
LinePieces ==
    {<<"-", " ">>, <<"1", ".", " ">>, <<"a">>, <<" ">>, <<"\n">>}

InputTexts ==
    TextsOver(MarkupPieces, MaxMarkupPieces) \cup TextsOver(LinePieces, MaxLinePieces)

IdleMap == qrow = None /\ index = 0 /\ q = None
IdleAssemble == rows = <<>> /\ category = <<>> /\ idx = 0 /\ root = <<>>
IdleTranslate ==
    /\ text = None /\ t = <<>> /\ lines = <<>> /\ html_lines = <<>>
    /\ i = 0 /\ html = <<>>

InitTranslate ==
    /\ pc = "start"
    /\ text \in {None} \cup {PyStr(s) : s \in InputTexts}
    /\ t = <<>> /\ lines = <<>> /\ html_lines = <<>> /\ i = 0 /\ html = <<>>
    /\ IdleMap /\ IdleAssemble

\* lines 39-40
ReturnEmpty ==
    /\ pc = "start" /\ text = None
    /\ html' = <<>>
    /\ pc' = "done"
    /\ UNCHANGED <<text, t, lines, html_lines, i, mapVars, assembleVars>>

\* lines 42-43
Sanitize ==
    /\ pc = "start" /\ text # None
    /\ t' = Sanitized(text.s)
    /\ pc' = "sanitized"
    /\ UNCHANGED <<text, lines, html_lines, i, html, mapVars, assembleVars>>

\* line 46
Escape ==
    /\ pc = "sanitized"
    /\ t' = escape(t)
    /\ pc' = "escaped"
    /\ UNCHANGED <<text, lines, html_lines, i, html, mapVars, assembleVars>>

\* line 49
ApplyBold ==
    /\ pc = "escaped"
    /\ t' = Bold(t)
    /\ pc' = "bold"
    /\ UNCHANGED <<text, lines, html_lines, i, html, mapVars, assembleVars>>

\* line 51
ApplyItalic ==
    /\ pc = "bold"
    /\ t' = Italic(t)
    /\ pc' = "italic"
    /\ UNCHANGED <<text, lines, html_lines, i, html, mapVars, assembleVars>>

\* lines 54-56
SplitLines ==
    /\ pc = "italic"
    /\ lines' = Split(t)
    /\ html_lines' = <<>>
    /\ i' = 0
    /\ pc' = "scan"
    /\ UNCHANGED <<text, t, html, mapVars, assembleVars>>

\* lines 57-66: a run of bullet lines
ScanBullets ==
    /\ pc = "scan" /\ i < Len(lines)
    /\ BulletPrefix(lines[i + 1]) > 0
    /\ LET r == ScanAt(lines, i + 1)
       IN html_lines' = Append(html_lines, r.block) /\ i' = r.next - 1
    /\ UNCHANGED <<pc, text, t, lines, html, mapVars, assembleVars>>

\* lines 57-58, 68-74: a run of numbered lines
ScanNumbered ==
    /\ pc = "scan" /\ i < Len(lines)
    /\ BulletPrefix(lines[i + 1]) = 0
    /\ NumberPrefix(lines[i + 1]) > 0
    /\ LET r == ScanAt(lines, i + 1)
       IN html_lines' = Append(html_lines, r.block) /\ i' = r.next - 1
    /\ UNCHANGED <<pc, text, t, lines, html, mapVars, assembleVars>>

\* lines 57-58, 76-77: a plain line
ScanPlain ==
    /\ pc = "scan" /\ i < Len(lines)
    /\ BulletPrefix(lines[i + 1]) = 0
    /\ NumberPrefix(lines[i + 1]) = 0
    /\ LET r == ScanAt(lines, i + 1)
       IN html_lines' = Append(html_lines, r.block) /\ i' = r.next - 1
    /\ UNCHANGED <<pc, text, t, lines, html, mapVars, assembleVars>>

\* line 79
JoinLines ==
    /\ pc = "scan" /\ i >= Len(lines)
    /\ html' = Join(html_lines)
    /\ pc' = "joined"
    /\ UNCHANGED <<text, t, lines, html_lines, i, mapVars, assembleVars>>

\* lines 80-81
CollapseBreaks ==
    /\ pc = "joined"
    /\ html' = Collapse(html)
    /\ pc' = "done"
    /\ UNCHANGED <<text, t, lines, html_lines, i, mapVars, assembleVars>>

NextTranslate ==
    \/ ReturnEmpty
    \/ Sanitize
    \/ Escape
    \/ ApplyBold
    \/ ApplyItalic
    \/ SplitLines
    \/ ScanBullets
    \/ ScanNumbered
    \/ ScanPlain
    \/ JoinLines
    \/ CollapseBreaks

SpecTranslate == InitTranslate /\ [][NextTranslate]_vars

-----------------------------------------------------------------------------
(* question_multichoice_xml on one row *)

Chars(w) ==
    CASE w = "a" -> <<"a">>
      [] w = "blank" -> <<" ">>
      [] w = "abc" -> <<"a", "b", "c">>
      [] w = "100" -> <<" ", "1", "0", "0", " ">>
      [] w = "3.14159" -> <<"3", ".", "1", "4", "1", "5", "9">>
      [] w = "no" -> <<"n", "o">>
      [] w = "YES" -> <<"Y", "E", "S">>
      [] w = "maybe" -> <<"m", "a", "y", "b", "e">>
      [] w = "*a*" -> <<"*", "a", "*">>
      [] w = "Math" -> <<"M", "a", "t", "h">>

MaxIndex == 3

\* a Fraction cell: empty, text that is no number, a number as text, and
\* numbers below, inside, at the edge of and above the range
FractionCells ==
    {NaN, PyStr(Chars("abc")), PyStr(Chars("100")), PyInt(100), PyInt(150),
     PyInt(-200), PyFloat(50 * Scale), PyFloat(100 * Scale - 6),
     PyFloat(100 * Scale - 15)}

\* a text cell: a column the sheet lacks, an empty cell, empty and blank
\* text, marked-up text
TextCells == {Absent, NaN, PyStr(<<>>), PyStr(Chars("blank")), PyStr(Chars("*a*"))}

NameCells == {Absent, NaN, PyStr(<<>>), PyStr(Chars("blank")), PyStr(Chars("a"))}

GradeCells ==
    {Absent, NaN, PyStr(Chars("abc")), PyStr(Chars("3.14159")), PyInt(10),
     PyFloat(25 * (Scale \div 10))}

ShuffleCells ==
    {Absent, NaN, PyBool(FALSE), PyStr(Chars("no")), PyStr(Chars("YES")),
     PyStr(Chars("maybe")), PyInt(0)}

BaseRow ==
    [Name |-> PyStr(Chars("a")),
     Question |-> PyStr(Chars("a")),
     GeneralFeedback |-> Absent,
     DefaultGrade |-> Absent,
     Shuffle |-> Absent,
     Choice |-> [n \in Choices |-> PyStr(Chars("a"))],
     Fraction |-> [n \in Choices |-> IF n = 1 THEN PyInt(100) ELSE PyInt(0)],
     ChoiceFeedback |-> [n \in Choices |-> Absent]]

\* the rows that differ in their five Fraction cells
FractionRows ==
    {[BaseRow EXCEPT !.Fraction = f] : f \in [Choices -> FractionCells]}

\* the rows that differ in Name, DefaultGrade and Shuffle
ScalarRows ==
    {[BaseRow EXCEPT !.Name = n, !.DefaultGrade = g, !.Shuffle = sh] :
        n \in NameCells, g \in GradeCells, sh \in ShuffleCells}

\* the rows that differ in their text cells
TextRows ==
    {[BaseRow EXCEPT !.Question = a, !.GeneralFeedback = b,
                     !.Choice[1] = c, !.ChoiceFeedback[5] = d] :
        a \in TextCells \ {Absent}, b \in TextCells, c \in TextCells \ {Absent},
        d \in TextCells}

\* the fraction columns are varied in full at the first position, the other
\* columns at every position
InitMapRow ==
    /\ pc = "map"
    /\ \/ qrow \in FractionRows /\ index = 0
       \/ qrow \in ScalarRows \cup TextRows /\ index \in 0..MaxIndex
    /\ q = None
    /\ IdleTranslate /\ IdleAssemble

\* lines 114-182
MapRow ==
    /\ pc = "map"
    /\ q' = question_multichoice_xml(qrow, index)
    /\ pc' = "mapped"
    /\ UNCHANGED <<qrow, index, translateVars, assembleVars>>

NextMapRow == MapRow

SpecMapRow == InitMapRow /\ [][NextMapRow]_vars

-----------------------------------------------------------------------------
(* excel_to_moodle_xml: the build loop *)

MaxRows == 3

SeqsUpTo(S, n) == UNION {[1..k -> S] : k \in 0..n}

\* what normalize_columns hands over: rows holding every required column
SheetRows ==
    {BaseRow,
     [BaseRow EXCEPT !.Name = NaN],
     [BaseRow EXCEPT !.Name = NaN, !.Fraction[2] = PyInt(100)],
     [BaseRow EXCEPT !.Question = PyStr(Chars("*a*")), !.Name = Absent]}

CourseSlash == <<"$", "c", "o", "u", "r", "s", "e", "$", "/">>

\* lines 229-233: the category <question> node
CategoryNode(category_name) ==
    [type |-> "category",
     text |-> IF category_name # <<>> THEN CourseSlash \o category_name
              ELSE CourseSlash \o <<"D", "e", "f", "a", "u", "l", "t">>]

\* a node appended only if the root does not hold an equal one
RootAppend_unique(children, qnode) ==
    IF \E k \in 1..Len(children) : children[k] = qnode THEN children
    ELSE Append(children, qnode)

\* line 243: root.append(qnode)
RootAppend(children, qnode) == Append(children, qnode)

Init ==
    /\ pc = "begin"
    /\ rows \in SeqsUpTo(SheetRows, MaxRows)
    /\ category \in {<<>>, Chars("Math")}
    /\ idx = 0
    /\ root = <<>>
    /\ IdleTranslate /\ IdleMap

\* lines 238-239
AddCategory ==
    /\ pc = "begin"
    /\ root' = <<CategoryNode(category)>>
    /\ pc' = "loop"
    /\ UNCHANGED <<rows, category, idx, translateVars, mapVars>>

\* lines 241-243: one iteration; iterrows yields the positions 0, 1, ...
AppendQuestion ==
    /\ pc = "loop" /\ idx < Len(rows)
    /\ root' = RootAppend(root, question_multichoice_xml(rows[idx + 1], idx))
    /\ idx' = idx + 1
    /\ UNCHANGED <<pc, rows, category, translateVars, mapVars>>

\* lines 245-248
WriteTree ==
    /\ pc = "loop" /\ idx >= Len(rows)
    /\ pc' = "written"
    /\ UNCHANGED <<rows, category, idx, root, translateVars, mapVars>>

Next ==
    \/ AddCategory
    \/ AppendQuestion
    \/ WriteTree

Spec == Init /\ [][Next]_vars

-----------------------------------------------------------------------------
(* Properties of convert_markup_to_html *)

Contains(s, pat) == \E p \in 1..Len(s) : MatchAt(s, p, pat)

GeneratedTags ==
    {StrongOpen, StrongClose, EmOpen, EmClose, UlOpen, UlClose, OlOpen, OlClose,
     LiOpen, LiClose, Br}

Entities ==
    {<<"&", "a", "m", "p", ";">>, <<"&", "l", "t", ";">>, <<"&", "g", "t", ";">>,
     <<"&", "q", "u", "o", "t", ";">>, <<"&", "#", "x", "2", "7", ";">>}

SafeFragment(s) ==
    \A p \in 1..Len(s) :
        /\ s[p] = "<" => \E T \in GeneratedTags : MatchAt(s, p, T)
        /\ s[p] = ">" => \E T \in GeneratedTags : MatchAt(s, p - Len(T) + 1, T)
        /\ s[p] = "&" => \E E \in Entities : MatchAt(s, p, E)

\* how many angle brackets s holds
AngleCount(s) == Cardinality({p \in 1..Len(s) : s[p] \in {"<", ">"}})

\* the text with a letter for each of its '<', '>' and '&'
Neutral(s) == [k \in 1..Len(s) |-> IF s[k] \in {"<", ">", "&"} THEN "x" ELSE s[k]]

\* C3: the fragment returned is safe: every '<' opens and every '>' closes a tag
\* the translator generated itself (strong, em, ul, ol, li, br), and every '&'
\* begins an escape entity; the input's own angle brackets add none to the
\* output, which holds as many as the same text written without them.
C3_OutputSafe ==
    pc = "done" /\ text # None =>
        /\ SafeFragment(html)
        /\ AngleCount(html) = AngleCount(Translate(Neutral(text.s)))

\* an input that spells a tag and an ampersand of its own inside emphasis
\* markers, translated to the end
C3_Witness ==
    /\ pc = "done" /\ text # None
    /\ Contains(text.s, EmOpen) /\ Contains(text.s, <<"&">>)
    /\ Contains(text.s, <<"*">>)
    /\ Contains(html, <<"&", "l", "t", ";", "e", "m", "&", "g", "t", ";">>)
    /\ \E T \in {StrongOpen, EmOpen} : Contains(html, T)

PairedTags == {"strong", "em", "ul", "ol", "li"}

OpenTag(n) ==
    CASE n = "strong" -> StrongOpen [] n = "em" -> EmOpen [] n = "ul" -> UlOpen
      [] n = "ol" -> OlOpen [] n = "li" -> LiOpen

CloseTag(n) ==
    CASE n = "strong" -> StrongClose [] n = "em" -> EmClose [] n = "ul" -> UlClose
      [] n = "ol" -> OlClose [] n = "li" -> LiClose

\* the tags of s from p on close in the reverse of the order they opened in
RECURSIVE Nested(_, _, _)
Nested(s, p, stack) ==
    IF p > Len(s) THEN stack = <<>>
    ELSE IF \E n \in PairedTags : MatchAt(s, p, OpenTag(n))
    THEN LET n == CHOOSE n \in PairedTags : MatchAt(s, p, OpenTag(n))
         IN Nested(s, p + Len(OpenTag(n)), <<n>> \o stack)
    ELSE IF \E n \in PairedTags : MatchAt(s, p, CloseTag(n))
    THEN LET n == CHOOSE n \in PairedTags : MatchAt(s, p, CloseTag(n))
         IN /\ stack # <<>>
            /\ Head(stack) = n
            /\ Nested(s, p + Len(CloseTag(n)), Tail(stack))
    ELSE Nested(s, p + 1, stack)

\* C4: the fragment returned is well-formed: every opening strong/em/ul/ol/li
\* tag has its closing tag and the tags are properly nested, never crossing.
C4_OutputWellFormed == pc = "done" => Nested(html, 1, <<>>)

\* the line a list pattern matches, stated on the line's shape: blank
\* characters, the marker, at least one blank character
FirstInk(line) == MinOf({k \in 1..Len(line) : line[k] \notin Whitespace})
HasInk(line) == \E k \in 1..Len(line) : line[k] \notin Whitespace
LastInk(line) ==
    CHOOSE k \in 1..Len(line) :
        /\ line[k] \notin Whitespace
        /\ \A j \in (k + 1)..Len(line) : line[j] \in Whitespace
Trimmed(s) == IF HasInk(s) THEN SubSeq(s, FirstInk(s), LastInk(s)) ELSE <<>>

IsBulletLine(line) ==
    /\ HasInk(line)
    /\ line[FirstInk(line)] = "-"
    /\ FirstInk(line) < Len(line)
    /\ line[FirstInk(line) + 1] \in Whitespace

\* the end of the digits that begin at the line's first visible character
MarkerAt(line) ==
    MinOf({k \in FirstInk(line)..(Len(line) + 1) :
              k > Len(line) \/ line[k] \notin Digits})

IsNumberedLine(line) ==
    /\ HasInk(line)
    /\ line[FirstInk(line)] \in Digits
    /\ MarkerAt(line) < Len(line)
    /\ line[MarkerAt(line)] \in {".", ")"}
    /\ line[MarkerAt(line) + 1] \in Whitespace

ClassOf(line) ==
    IF IsBulletLine(line) THEN "ul"
    ELSE IF IsNumberedLine(line) THEN "ol" ELSE "plain"

ContentOf(line) ==
    IF IsBulletLine(line)
    THEN Trimmed(SubSeq(line, FirstInk(line) + 1, Len(line)))
    ELSE Trimmed(SubSeq(line, MarkerAt(line) + 1, Len(line)))

\* the lines a block begins at: every plain line, and the first line of every
\* maximal run of lines of one list kind
BlockStarts(ls) ==
    {k \in 1..Len(ls) :
        \/ ClassOf(ls[k]) = "plain"
        \/ k = 1
        \/ ClassOf(ls[k - 1]) # ClassOf(ls[k])}

\* the last line of the block that begins at k
BlockEnd(ls, k) ==
    IF ClassOf(ls[k]) = "plain" THEN k
    ELSE CHOOSE e \in k..Len(ls) :
            /\ \A j \in k..e : ClassOf(ls[j]) = ClassOf(ls[k])
            /\ (e = Len(ls) \/ ClassOf(ls[e + 1]) # ClassOf(ls[k]))

ExpectedBlock(ls, k) ==
    IF ClassOf(ls[k]) = "plain" THEN ls[k]
    ELSE OpenTag(ClassOf(ls[k]))
         \o Concat([j \in 1..(BlockEnd(ls, k) - k + 1) |->
                     LiOpen \o ContentOf(ls[k + j - 1]) \o LiClose])
         \o CloseTag(ClassOf(ls[k]))

\* the n-th element of a set of numbers, in increasing order
NthOf(S, n) == CHOOSE x \in S : Cardinality({y \in S : y < x}) = n - 1

\* C5: the line scan turns every maximal contiguous run of bullet lines into
\* exactly one <ul> block and every maximal contiguous run of numbered lines
\* into exactly one <ol> block, one <li> per line of the run in line order; a
\* line matching a list pattern is never emitted as a plain line and every
\* other line is emitted once, as it is, in its position.
C5_RunsBecomeBlocks ==
    pc \in {"joined", "done"} =>
        /\ Len(html_lines) = Cardinality(BlockStarts(lines))
        /\ \A n \in 1..Len(html_lines) :
              html_lines[n] = ExpectedBlock(lines, NthOf(BlockStarts(lines), n))

\* a run of two bullet lines, each with its content, scanned into one block
C5_Witness ==
    /\ pc = "joined"
    /\ lines = <<<<"-", " ", "a">>, <<"-", " ", "a">>>>
    /\ html_lines =
          <<UlOpen \o LiOpen \o <<"a">> \o LiClose
                   \o LiOpen \o <<"a">> \o LiClose \o UlClose>>

\* the positions of the line-break markers of s
Markers(s) == {p \in 1..Len(s) : MatchAt(s, p, Br)}

\* everything from marker a to marker b is markers and blank characters
SameRun(s, a, b) ==
    \A k \in a..b :
        \/ s[k] \in Whitespace
        \/ \E m \in Markers(s) : m <= k /\ k < m + Len(Br)

RunStarts(s) ==
    {m \in Markers(s) : ~\E a \in Markers(s) : a < m /\ SameRun(s, a, m)}

RunLength(s, m) == Cardinality({b \in Markers(s) : m <= b /\ SameRun(s, m, b)})

\* the lengths of the runs of consecutive markers of s, left to right
RunLengths(s) ==
    [n \in 1..Cardinality(RunStarts(s)) |-> RunLength(s, NthOf(RunStarts(s), n))]

\* C6: the output never holds three or more consecutive line-break markers:
\* every run of three or more markers of the joined lines (blank lines between
\* them included) is emitted as exactly two markers, and a run of one or two
\* markers is left as it is.
C6_BreaksCapped ==
    pc = "done" /\ text # None =>
        LET before == RunLengths(Join(html_lines))
            after == RunLengths(html)
        IN /\ \A n \in 1..Len(after) : after[n] <= 2
           /\ Len(after) = Len(before)
           /\ \A n \in 1..Len(before) :
                 after[n] = IF before[n] >= 3 THEN 2 ELSE before[n]

\* four breaks in a row with a blank line among them, collapsed to two markers
C6_Witness ==
    /\ pc = "done" /\ text # None
    /\ \E n \in 1..Len(RunLengths(Join(html_lines))) :
          RunLengths(Join(html_lines))[n] >= 4
    /\ \E k \in 2..(Len(html_lines) - 1) : html_lines[k] = <<" ">>
    /\ RunLengths(html) = <<2>>

-----------------------------------------------------------------------------
(* Properties of question_multichoice_xml *)

\* the number a Fraction cell stands for, 0.0 for a missing or unparseable one
FractionValue(cell) ==
    CASE cell.kind = "float" -> cell.v
      [] cell.kind = "int" -> cell.v * Scale
      [] cell.kind = "str" /\ ParseFloat(cell.s).ok -> ParseFloat(cell.s).v
      [] OTHER -> 0

FullCredit == 100 * Scale - Scale \div 1000000

\* one choice is strictly above the four others
UniqueBest(val) ==
    \E n \in Choices :
        /\ \A m \in Choices \ {n} : val[m] < val[n]
        /\ val[n] >= FullCredit

\* C1: single is true exactly when one of the five coerced fractions (a missing
\* or unparseable one counting 0.0) alone attains their maximum and that
\* maximum is at least 100 - 1e-6; two choices at 100, or a best choice below
\* 100, give false.
C1_SingleIffUniqueFullCredit ==
    pc = "mapped" =>
        LET val == [n \in Choices |-> FractionValue(qrow.Fraction[n])]
        IN (q.single = "true") <=> UniqueBest(val)

\* a row with two choices at 100 (one of them written as text) mapped to
\* single=false
C1_Witness ==
    /\ pc = "mapped"
    /\ qrow.Fraction[1] = PyInt(100)
    /\ qrow.Fraction[2] = PyStr(Chars("100"))
    /\ \A n \in 3..5 : qrow.Fraction[n] = NaN
    /\ q.single = "false"

Hundred == <<"1", "0", "0", ".", "0">>
ZeroText == <<"0", ".", "0">>

IsNumberCell(cell) ==
    cell.kind \in {"int", "float"} \/ (cell.kind = "str" /\ ParseFloat(cell.s).ok)

\* C2: the fraction emitted on the i-th answer lies in [-100.0, 100.0] whatever
\* Fraction_i holds: above 100 it is 100.0, below -100 it is -100.0, inside the
\* range it is the value unchanged, and 0.0 for a missing or unparseable one.
C2_FractionClamped ==
    pc = "mapped" =>
        \A n \in Choices :
            LET cell == qrow.Fraction[n]
                out == q.answers[n].fraction
                v == FractionValue(cell)
            IN /\ ParseFloat(out).ok
               /\ ParseFloat(out).v >= -100 * Scale
               /\ ParseFloat(out).v <= 100 * Scale
               /\ IsNumberCell(cell) /\ v > 100 * Scale => out = Hundred
               /\ IsNumberCell(cell) /\ v < -100 * Scale => out = <<"-">> \o Hundred
               /\ IsNumberCell(cell) /\ v >= -100 * Scale /\ v <= 100 * Scale
                     => ParseFloat(out).v = v
               /\ ~IsNumberCell(cell) => out = ZeroText

\* a row holding 150, -200, an empty cell and a value inside the range, mapped
C2_Witness ==
    /\ pc = "mapped"
    /\ qrow.Fraction[1] = PyInt(150) /\ q.answers[1].fraction = Hundred
    /\ qrow.Fraction[2] = PyInt(-200) /\ q.answers[2].fraction = <<"-">> \o Hundred
    /\ qrow.Fraction[3] = NaN /\ q.answers[3].fraction = ZeroText
    /\ qrow.Fraction[4] = PyFloat(50 * Scale)
    /\ q.answers[4].fraction = <<"5", "0", ".", "0">>

\* a Name cell that is there and is not blank
NameGiven(cell) == cell.kind = "str" /\ HasInk(cell.s)

\* C8: the question name is the row's Name when that is present and non-blank,
\* and "Q" followed by the 1-based position otherwise (absent, empty or blank).
C8_NameOrPosition ==
    pc = "mapped" =>
        q.name = IF NameGiven(qrow.Name) THEN qrow.Name.s
                 ELSE <<"Q">> \o IntStr(index + 1)

\* a text cell that is absent or blank
NoText(cell) == cell \in {Absent, None, NaN} \/ (cell.kind = "str" /\ ~HasInk(cell.s))

\* C9: every missing field degrades to its default: an absent or blank
\* question, general feedback, choice text or choice feedback gives an empty
\* HTML string; an absent or unparseable DefaultGrade gives 5.00; an absent or
\* unrecognised Shuffle gives true; an absent or unparseable Fraction gives 0.0.
C9_MissingFieldsDefault ==
    pc = "mapped" =>
        /\ NoText(qrow.Question) => q.questiontext = <<>>
        /\ NoText(qrow.GeneralFeedback) => q.generalfeedback = <<>>
        /\ \A n \in Choices :
              /\ NoText(qrow.Choice[n]) => q.answers[n].text = <<>>
              /\ NoText(qrow.ChoiceFeedback[n]) => q.answers[n].feedback = <<>>
              /\ ~IsNumberCell(qrow.Fraction[n]) => q.answers[n].fraction = ZeroText
        /\ ~IsNumberCell(qrow.DefaultGrade) => q.defaultgrade = <<"5", ".", "0", "0">>
        /\ (qrow.Shuffle.kind # "bool"
            /\ str_lower(str_strip(PyStrOf(Get(qrow.Shuffle))))
                  \notin TrueWords \cup FalseWords)
              => q.shuffleanswers = "true"

\* C10: whenever single is true, exactly one of the five answers emitted
\* carries the full-credit fraction 100 (within 1e-6), also when an input
\* fraction exceeds 100.
C10_SingleMatchesAnswers ==
    pc = "mapped" /\ q.single = "true" =>
        Cardinality({n \in Choices :
                        ParseFloat(q.answers[n].fraction).v >= FullCredit}) = 1

-----------------------------------------------------------------------------
(* Properties of the build loop *)

\* C7: the root's first child is the one category node and the children after
\* it are one question node per row, in row order: the k-th question is the
\* mapping of the k-th row at position k-1, none dropped, repeated or moved,
\* rows of identical content included.
C7_OneQuestionPerRowInOrder ==
    /\ pc = "loop" => Len(root) = idx + 1
    /\ pc = "written" =>
          /\ Len(root) = Len(rows) + 1
          /\ root[1] = CategoryNode(category)
          /\ \A k \in 1..Len(rows) :
                root[k + 1] = question_multichoice_xml(rows[k], k - 1)

\* three rows written, the first two of identical content, the third not
C7_Witness ==
    /\ pc = "written"
    /\ Len(rows) = 3
    /\ rows[1] = rows[2] /\ rows[3] # rows[1]
    /\ rows[1].Name # NaN
    /\ root[2] = root[3] /\ root[4] # root[2]

====
